---- MODULE Spec2Model ----
(***************************************************************************)
(* Model of app.py: the Slack slash-command bridge.                        *)
(*                                                                         *)
(* Strings that the code inspects (command text, URLs, generated text) are *)
(* sequences of one-character strings, so that strip, split, startswith,   *)
(* upper/lower, substring search and URL path parsing are computed the way *)
(* the code computes them.  Strings that are only compared or echoed       *)
(* (command names, callback URLs, channel ids) are TLA+ strings.           *)
(*                                                                         *)
(* Specifications:                                                         *)
(*   Spec         requests served one after another, with the /ask thread  *)
(*                running between them                                     *)
(*   SpecParse    the text parse of /ask over a range of texts             *)
(*   SpecResolve  the ticket key resolver over a range of ticket URLs      *)
(*   SpecConc     two /ask threads interleaved                             *)
(*   SpecLive     one /ask thread under the scheduling that runs it to its *)
(*                end                                                      *)
(***************************************************************************)
EXTENDS Integers, Sequences, FiniteSets, TLC

VARIABLES
    req,     \* the request last received by handle_slack_command
    resp,    \* the HTTP response returned for it
    calls,   \* collaborator calls made while handling it, in call order
    tasks    \* the detached threads started so far, in start order

vars == <<req, resp, calls, tasks>>

----------------------------------------------------------------------------
(* Bounds of the model *)

MaxChunks == 2    \* chunks the provider streams to one task
MaxChunksEach == 1    \* chunks streamed to each of two tasks running at once

----------------------------------------------------------------------------
(* str primitives *)

Lowers == <<"a","b","c","d","e","f","g","h","i","j","k","l","m",
            "n","o","p","q","r","s","t","u","v","w","x","y","z">>
Uppers == <<"A","B","C","D","E","F","G","H","I","J","K","L","M",
            "N","O","P","Q","R","S","T","U","V","W","X","Y","Z">>
Digits == {"0","1","2","3","4","5","6","7","8","9"}
Whitespace == {" ", "\n"}

UpperChar(c) ==
    IF \E i \in 1..26 : Lowers[i] = c
    THEN Uppers[CHOOSE i \in 1..26 : Lowers[i] = c] ELSE c

LowerChar(c) ==
    IF \E i \in 1..26 : Uppers[i] = c
    THEN Lowers[CHOOSE i \in 1..26 : Uppers[i] = c] ELSE c

Upper(s) == [i \in 1..Len(s) |-> UpperChar(s[i])]
Lower(s) == [i \in 1..Len(s) |-> LowerChar(s[i])]

StartsWith(s, p) == Len(p) <= Len(s) /\ SubSeq(s, 1, Len(p)) = p

\* sub in s
Contains(s, sub) ==
    \E i \in 1..(Len(s) + 1) :
        i + Len(sub) - 1 <= Len(s) /\ SubSeq(s, i, i + Len(sub) - 1) = sub

\* index of the first element of s that is in cs, 0 when there is none
FirstOf(s, cs) ==
    IF \E i \in 1..Len(s) : s[i] \in cs
    THEN CHOOSE i \in 1..Len(s) : s[i] \in cs /\ \A j \in 1..(i - 1) : s[j] \notin cs
    ELSE 0

\* s.strip()
Strip(s) ==
    IF \A i \in 1..Len(s) : s[i] \in Whitespace THEN <<>>
    ELSE LET a == CHOOSE i \in 1..Len(s) :
                      s[i] \notin Whitespace /\ \A j \in 1..(i - 1) : s[j] \in Whitespace
             b == CHOOSE i \in 1..Len(s) :
                      s[i] \notin Whitespace /\ \A j \in (i + 1)..Len(s) : s[j] \in Whitespace
         IN  SubSeq(s, a, b)

\* s.split(" ", 1)
SplitFirst(s) ==
    LET i == FirstOf(s, {" "})
    IN  IF i = 0 THEN <<s>> ELSE <<SubSeq(s, 1, i - 1), SubSeq(s, i + 1, Len(s))>>

\* s.split(sep)
RECURSIVE Split(_, _)
Split(s, sep) ==
    LET i == FirstOf(s, {sep})
    IN  IF i = 0 THEN <<s>>
        ELSE <<SubSeq(s, 1, i - 1)>> \o Split(SubSeq(s, i + 1, Len(s)), sep)

\* "".join(ss)
RECURSIVE Concat(_)
Concat(ss) == IF ss = <<>> THEN <<>> ELSE Head(ss) \o Concat(Tail(ss))

----------------------------------------------------------------------------
(* Configuration read at start-up *)

slack_signing_secret == "secret"
jira_url == <<"h", ":", "/", "/", "j">>

----------------------------------------------------------------------------
(* Request authentication *)

\* 'v0=' + HMAC-SHA256(secret, "v0:" + timestamp + ":" + raw_body), taken as
\* collision free: the digest stands for the triple it was computed from.
Hmac(secret, timestamp, raw_body) ==
    [v0 |-> TRUE, key |-> secret, timestamp |-> timestamp, raw_body |-> raw_body]

\* A header value that is no digest: kept as its text and whether the text
\* is pure ASCII.
RawHeader(text, ascii) == [v0 |-> FALSE, text |-> text, ascii |-> ascii]

IsAscii(sig) == sig.v0 \/ sig.ascii

\* hmac.compare_digest on two str: TypeError unless both are ASCII
compare_digest(a, b) ==
    IF IsAscii(a) /\ IsAscii(b)
    THEN [raised |-> FALSE, equal |-> (a = b)]
    ELSE [raised |-> TRUE, equal |-> FALSE]

----------------------------------------------------------------------------
(* Ticket reference resolver *)

Letters == {Lowers[i] : i \in 1..26} \cup {Uppers[i] : i \in 1..26}
SchemeChars == Letters \cup Digits \cup {"+", "-", "."}
BROWSE == <<"b", "r", "o", "w", "s", "e">>

\* urlparse(url).path: drop "scheme:", then "//netloc", then "#fragment" and
\* "?query"
UrlPath(url) ==
    LET c == FirstOf(url, {":"})
        hasScheme == c > 1 /\ url[1] \in Letters
                           /\ \A j \in 1..(c - 1) : url[j] \in SchemeChars
        rest1 == IF hasScheme THEN SubSeq(url, c + 1, Len(url)) ELSE url
        after == SubSeq(rest1, 3, Len(rest1))
        d == FirstOf(after, {"/", "?", "#"})
        rest2 == IF StartsWith(rest1, <<"/", "/">>)
                 THEN (IF d = 0 THEN <<>> ELSE SubSeq(after, d, Len(after)))
                 ELSE rest1
        f == FirstOf(rest2, {"#"})
        rest3 == IF f = 0 THEN rest2 ELSE SubSeq(rest2, 1, f - 1)
        q == FirstOf(rest3, {"?"})
    IN  IF q = 0 THEN rest3 ELSE SubSeq(rest3, 1, q - 1)

\* '-' in part and any(c.isdigit() for c in part)
LooksLikeKey(part) ==
    (\E i \in 1..Len(part) : part[i] = "-") /\ (\E i \in 1..Len(part) : part[i] \in Digits)

\* [ok |-> TRUE, key |-> k] for a returned key, [ok |-> FALSE] for ValueError
extract_ticket_key_from_url(url) ==
    LET path_parts == Split(UrlPath(url), "/")
        n == Len(path_parts)
        hasBrowse == \E i \in 1..n : path_parts[i] = BROWSE
        browse_index == CHOOSE i \in 1..n :
                            path_parts[i] = BROWSE /\ \A j \in 1..(i - 1) : path_parts[j] # BROWSE
        hasKey == \E i \in 1..n : LooksLikeKey(path_parts[i])
        first == CHOOSE i \in 1..n :
                     LooksLikeKey(path_parts[i]) /\ \A j \in 1..(i - 1) : ~LooksLikeKey(path_parts[j])
    IN  IF hasBrowse /\ browse_index + 1 <= n
        THEN [ok |-> TRUE, key |-> Upper(path_parts[browse_index + 1])]
        ELSE IF hasKey
             THEN [ok |-> TRUE, key |-> Upper(path_parts[first])]
             ELSE [ok |-> FALSE]

----------------------------------------------------------------------------
(* Collaborators of the synchronous handlers.  What the remote side does   *)
(* is an input of the request: an outcome record chosen by the environment.*)

ERROR == <<"E", "r", "r", "o", "r">>

\* outcomes of requests.get on the tracker: a ticket, an HTTP or transport
\* error (RequestException), or a body without the expected fields (KeyError)
TrackerOutcomes ==
    { [kind |-> "ok", summary |-> <<"s">>, description |-> <<"d">>],
      [kind |-> "request_error"],
      [kind |-> "malformed"] }

\* outcomes of model.generate_content: the text of the response, or an
\* exception with its message
GenTexts == { <<"o", "k">>, <<"n", "o">> \o ERROR }
GenMessages == { <<"q", "u", "o", "t", "a">>, ERROR \o <<"5">> }
GenOutcomes ==
    [raised : {FALSE}, text : GenTexts] \cup [raised : {TRUE}, text : GenMessages]

\* outcomes of requests.post on the tracker's comment resource
CommentOutcomes == {"ok", "request_error"}

\* outcomes of genai.list_models
ListOutcomes == {"ok", "error"}

\* get_jira_ticket_details: (summary, description), (None, str(e)), or an
\* exception that is no RequestException
get_jira_ticket_details(ticket_key, tr) ==
    IF tr.kind = "ok"
    THEN [raised |-> FALSE, none |-> FALSE,
          summary |-> tr.summary, description |-> tr.description]
    ELSE IF tr.kind = "request_error"
         THEN [raised |-> FALSE, none |-> TRUE,
               summary |-> <<>>, description |-> <<"e">>]
         ELSE [raised |-> TRUE, none |-> TRUE, summary |-> <<>>, description |-> <<>>]

\* generate_specs: response.text, or str(e) when the call raised
generate_specs(ticket_summary, ticket_description, user_prompt, gn) == gn.text

\* add_jira_comment: True, or str(e)
add_jira_comment(ticket_key, comment, cm) ==
    IF cm = "ok" THEN [true |-> TRUE] ELSE [true |-> FALSE]

\* list_gemini_models: the bulleted names, or "Error listing models: ..."
list_gemini_models(lm) ==
    IF lm = "ok" THEN [msg |-> "names"] ELSE [msg |-> "Error listing models"]

----------------------------------------------------------------------------
(* Synchronous handlers *)

\* data.get(name, default)
FormGet(data, name, default) == IF name \in DOMAIN data THEN data[name] ELSE default

\* jsonify(payload): status 200 unless the handler gives another
Jsonify(payload, status) == [status |-> status, body |-> payload]

Ephemeral(msg, arg) ==
    Jsonify([response_type |-> "ephemeral", msg |-> msg, arg |-> arg], 200)

InChannel(msg, arg) ==
    Jsonify([response_type |-> "in_channel", msg |-> msg, arg |-> arg], 200)

\* Entries of the call log: the call with its arguments, and what the remote
\* side answered (known to the environment, not to the caller).
CallRead(key, tr) ==
    [op |-> "get_jira_ticket_details", ticket_key |-> key, failed |-> (tr.kind # "ok")]
CallGenerate(summary, description, prompt, gn) ==
    [op |-> "generate_specs", summary |-> summary, description |-> description,
     user_prompt |-> prompt, failed |-> gn.raised, returned |-> gn.text]
CallComment(key, comment, cm) ==
    [op |-> "add_jira_comment", ticket_key |-> key, comment |-> comment,
     failed |-> (cm # "ok")]
CallList(lm) == [op |-> "list_gemini_models", failed |-> (lm # "ok")]

Result(r, c) == [resp |-> r, calls |-> c]

\* mutant: the origin of the ticket URL is not checked
handle_create_specs_NoOriginCheck(data, tr, gn, cm) ==
    LET command_text == Strip(FormGet(data, "text", <<>>))
        parts == SplitFirst(command_text)
        ticket_url == parts[1]
        user_prompt == IF Len(parts) > 1 THEN parts[2] ELSE <<>>
        extracted == extract_ticket_key_from_url(ticket_url)
        ticket_key == extracted.key
        details == get_jira_ticket_details(ticket_key, tr)
        specs == generate_specs(details.summary, details.description, user_prompt, gn)
        result == add_jira_comment(ticket_key, specs, cm)
        c1 == <<CallRead(ticket_key, tr)>>
        c2 == c1 \o <<CallGenerate(details.summary, details.description, user_prompt, gn)>>
        c3 == c2 \o <<CallComment(ticket_key, specs, cm)>>
    IN  IF command_text = <<>>
        THEN Result(Ephemeral("usage_create_specs", <<>>), <<>>)
        ELSE IF ~extracted.ok
        THEN Result(Ephemeral("Invalid Jira ticket URL", ticket_url), <<>>)
        ELSE IF details.raised
        THEN Result(Ephemeral("An unexpected error occurred", <<>>), c1)
        ELSE IF details.none
        THEN Result(Ephemeral("Error retrieving Jira ticket", details.description), c1)
        ELSE IF Contains(specs, ERROR)
        THEN Result(Ephemeral("Error generating specs", specs), c2)
        ELSE IF result.true
        THEN Result(InChannel("Successfully added specifications to Jira ticket",
                              <<ticket_key, ticket_url>>), c3)
        ELSE Result(Ephemeral("Error adding comment to Jira", <<>>), c3)

\* handle_create_specs: the response and the collaborator calls it made
handle_create_specs(data, tr, gn, cm) ==
    LET command_text == Strip(FormGet(data, "text", <<>>))
        parts == SplitFirst(command_text)
        ticket_url == parts[1]
        user_prompt == IF Len(parts) > 1 THEN parts[2] ELSE <<>>
        extracted == extract_ticket_key_from_url(ticket_url)
        ticket_key == extracted.key
        details == get_jira_ticket_details(ticket_key, tr)
        specs == generate_specs(details.summary, details.description, user_prompt, gn)
        result == add_jira_comment(ticket_key, specs, cm)
        c1 == <<CallRead(ticket_key, tr)>>
        c2 == c1 \o <<CallGenerate(details.summary, details.description, user_prompt, gn)>>
        c3 == c2 \o <<CallComment(ticket_key, specs, cm)>>
    IN  IF command_text = <<>>
        THEN Result(Ephemeral("usage_create_specs", <<>>), <<>>)
        ELSE IF ~extracted.ok
        THEN Result(Ephemeral("Invalid Jira ticket URL", ticket_url), <<>>)
        ELSE IF ~StartsWith(ticket_url, jira_url)
        THEN Result(Ephemeral("Error: The provided URL must be from your configured Jira instance",
                              jira_url), <<>>)
        ELSE IF details.raised
        THEN Result(Ephemeral("An unexpected error occurred", <<>>), c1)
        ELSE IF details.none
        THEN Result(Ephemeral("Error retrieving Jira ticket", details.description), c1)
        ELSE IF Contains(specs, ERROR)
        THEN Result(Ephemeral("Error generating specs", specs), c2)
        ELSE IF result.true
        THEN Result(InChannel("Successfully added specifications to Jira ticket",
                              <<ticket_key, ticket_url>>), c3)
        ELSE Result(Ephemeral("Error adding comment to Jira", <<>>), c3)

\* handle_list_models
handle_list_models(lm) ==
    Result(InChannel("Available Gemini Models", list_gemini_models(lm)), <<CallList(lm)>>)

----------------------------------------------------------------------------
(* The detached /ask task: process_ask_command_async *)

M15PRO == <<"g", "e", "m", "i", "n", "i", "-", "1", ".", "5", "-", "p", "r", "o">>
M15FLASH == <<"g", "e", "m", "i", "n", "i", "-", "1", ".", "5", "-", "f", "l", "a", "s", "h">>
M20FLASH == <<"g", "e", "m", "i", "n", "i", "-", "2", ".", "0", "-", "f", "l", "a", "s", "h">>
GEMINI_PREFIX == <<"g", "e", "m", "i", "n", "i", "-">>

valid_models == {M15PRO, M15FLASH, M20FLASH}

\* model_name and question from the text
ParseAsk(text) ==
    LET parts == SplitFirst(text)
    IN  IF StartsWith(Lower(text), GEMINI_PREFIX)
           /\ Len(parts) > 1 /\ parts[1] \in valid_models
        THEN [model_name |-> parts[1], question |-> parts[2]]
        ELSE [model_name |-> M15PRO, question |-> text]

\* A thread as threading.Thread(target=..., args=(text, channel_id,
\* response_url)) starts it.  sent is the list of the requests.post calls
\* the task has made and response what send_delayed_response returned for
\* the latest one ("ok" for a response, "failed" for None); initial,
\* requested, chunks, fragments and raised record what the callback endpoint
\* and the provider did.
NewTask(text, channel_id, response_url) ==
    [text |-> text, channel_id |-> channel_id, response_url |-> response_url,
     pc |-> "start",
     model_name |-> <<>>, question |-> <<>>,
     message_ts |-> FALSE,
     accumulated_text |-> <<>>,
     sent |-> <<>>,
     response |-> "unsent",
     initial |-> "none",
     requested |-> FALSE,
     chunks |-> 0,
     fragments |-> <<>>,
     raised |-> FALSE,
     pauses |-> 0]

\* the payloads
UsageMessage ==
    [response_type |-> "ephemeral", kind |-> "usage",
     model |-> <<>>, question |-> <<>>, text |-> <<>>, replace_original |-> FALSE]

InitialMessage(model_name, question) ==
    [response_type |-> "in_channel", kind |-> "thinking",
     model |-> model_name, question |-> question, text |-> <<>>,
     replace_original |-> FALSE]

UpdateMessage(model_name, question, accumulated_text) ==
    [response_type |-> "in_channel", kind |-> "response",
     model |-> model_name, question |-> question, text |-> accumulated_text,
     replace_original |-> TRUE]

GenerationErrorMessage ==
    [response_type |-> "ephemeral", kind |-> "Error generating response",
     model |-> <<>>, question |-> <<>>, text |-> <<>>, replace_original |-> FALSE]

ErrorMessage ==
    [response_type |-> "ephemeral", kind |-> "An error occurred",
     model |-> <<>>, question |-> <<>>, text |-> <<>>, replace_original |-> FALSE]

\* send_delayed_response: one requests.post to response_url; the response, or
\* None when the post or raise_for_status raised
SendOutcomes == {"ok", "failed"}

send_delayed_response(t, message, outcome) ==
    [t EXCEPT !.sent = Append(@, [url |-> t.response_url, message |-> message]),
              !.response = outcome]

\* What the callback endpoint answers to the first post: a failure, a JSON
\* body with a ts, a JSON body without one, or a body that is no JSON.
InitialOutcomes == {"failed", "ok_ts", "ok_no_ts", "ok_not_json"}

\* the chunks of a streamed generation, by their text
Fragments == { <<>>, <<"a">>, <<"b">> }

\* what the iteration over generate_response meets next: a chunk with its
\* text, the end of the stream, or an exception of the provider
ChunkOutcomes ==
    [kind : {"chunk"}, text : Fragments]
        \cup { [kind |-> "end", text |-> <<>>], [kind |-> "raise", text |-> <<>>] }

\* mutant: generation starts without the placeholder having been posted
StartTask_NoPlaceholder(t, o) ==
    LET parsed == ParseAsk(t.text)
        t1 == [t EXCEPT !.model_name = parsed.model_name, !.question = parsed.question]
    IN  IF t.text = <<>>
        THEN [send_delayed_response(t, UsageMessage, IF o = "failed" THEN "failed" ELSE "ok")
                 EXCEPT !.pc = "done"]
        ELSE [t1 EXCEPT !.initial = o, !.message_ts = (o = "ok_ts"), !.pc = "generate"]

\* mutant: the text is not checked for being empty
StartTask_NoTextCheck(t, o) ==
    LET parsed == ParseAsk(t.text)
        t1 == [t EXCEPT !.model_name = parsed.model_name, !.question = parsed.question]
        t2 == send_delayed_response(t1, InitialMessage(t1.model_name, t1.question),
                                    IF o = "failed" THEN "failed" ELSE "ok")
    IN  IF o = "ok_not_json"
        THEN [t2 EXCEPT !.initial = o, !.pc = "except"]
        ELSE [t2 EXCEPT !.initial = o, !.message_ts = (o = "ok_ts"), !.pc = "generate"]

\* mutant: a placeholder response that cannot be decoded is read as one
\* without a ts
StartTask_IgnoreUndecodable(t, o) ==
    LET parsed == ParseAsk(t.text)
        t1 == [t EXCEPT !.model_name = parsed.model_name, !.question = parsed.question]
        t2 == send_delayed_response(t1, InitialMessage(t1.model_name, t1.question),
                                    IF o = "failed" THEN "failed" ELSE "ok")
    IN  IF t.text = <<>>
        THEN [send_delayed_response(t, UsageMessage, IF o = "failed" THEN "failed" ELSE "ok")
                 EXCEPT !.pc = "done"]
        ELSE [t2 EXCEPT !.initial = o, !.message_ts = (o = "ok_ts"), !.pc = "generate"]

\* Lines 311-366: the empty-text check, the model/question parse, the
\* placeholder post and the reading of its response.
StartTask(t, o) ==
    LET parsed == ParseAsk(t.text)
        t1 == [t EXCEPT !.model_name = parsed.model_name, !.question = parsed.question]
        t2 == send_delayed_response(t1, InitialMessage(t1.model_name, t1.question),
                                    IF o = "failed" THEN "failed" ELSE "ok")
    IN  IF t.text = <<>>
        THEN [send_delayed_response(t, UsageMessage, IF o = "failed" THEN "failed" ELSE "ok")
                 EXCEPT !.pc = "done"]
        ELSE IF o = "ok_not_json"
        THEN [t2 EXCEPT !.initial = o, !.pc = "except"]
        ELSE [t2 EXCEPT !.initial = o, !.message_ts = (o = "ok_ts"), !.pc = "generate"]

\* mutant: an update that could not be delivered ends the task
NextChunk_StopOnFailure(t, c, o) ==
    LET t1 == [t EXCEPT !.requested = TRUE]
        t2 == [t1 EXCEPT !.chunks = @ + 1,
                         !.fragments = Append(@, c.text),
                         !.accumulated_text = @ \o c.text]
    IN  IF c.kind = "end" THEN [t1 EXCEPT !.pc = "done"]
        ELSE IF c.kind = "raise" THEN [t1 EXCEPT !.raised = TRUE, !.pc = "gen_except"]
        ELSE IF c.text = <<>> THEN [t1 EXCEPT !.chunks = @ + 1]
        ELSE IF t2.message_ts
        THEN [send_delayed_response(
                  t2, UpdateMessage(t2.model_name, t2.question, t2.accumulated_text), o)
                 EXCEPT !.pc = IF o = "failed" THEN "done" ELSE "sleep"]
        ELSE t2

\* mutant: the iteration goes on after an update without the pause
NextChunk_NoPause(t, c, o) ==
    LET t1 == [t EXCEPT !.requested = TRUE]
        t2 == [t1 EXCEPT !.chunks = @ + 1,
                         !.fragments = Append(@, c.text),
                         !.accumulated_text = @ \o c.text]
    IN  IF c.kind = "end" THEN [t1 EXCEPT !.pc = "done"]
        ELSE IF c.kind = "raise" THEN [t1 EXCEPT !.raised = TRUE, !.pc = "gen_except"]
        ELSE IF c.text = <<>> THEN [t1 EXCEPT !.chunks = @ + 1]
        ELSE IF t2.message_ts
        THEN send_delayed_response(
                 t2, UpdateMessage(t2.model_name, t2.question, t2.accumulated_text), o)
        ELSE t2

\* mutant: the update is sent whether or not there is a message_ts
NextChunk_Ungated(t, c, o) ==
    LET t1 == [t EXCEPT !.requested = TRUE]
        t2 == [t1 EXCEPT !.chunks = @ + 1,
                         !.fragments = Append(@, c.text),
                         !.accumulated_text = @ \o c.text]
    IN  IF c.kind = "end" THEN [t1 EXCEPT !.pc = "done"]
        ELSE IF c.kind = "raise" THEN [t1 EXCEPT !.raised = TRUE, !.pc = "gen_except"]
        ELSE IF c.text = <<>> THEN [t1 EXCEPT !.chunks = @ + 1]
        ELSE [send_delayed_response(
                  t2, UpdateMessage(t2.model_name, t2.question, t2.accumulated_text), o)
                 EXCEPT !.pc = "sleep"]

\* Lines 372-403 with 202-204: one step of the iteration.  A chunk without
\* text is skipped inside generate_response; a chunk with text is yielded,
\* appended, and sent when there is a message_ts.
NextChunk(t, c, o) ==
    LET t1 == [t EXCEPT !.requested = TRUE]
        t2 == [t1 EXCEPT !.chunks = @ + 1,
                         !.fragments = Append(@, c.text),
                         !.accumulated_text = @ \o c.text]
    IN  IF c.kind = "end" THEN [t1 EXCEPT !.pc = "done"]
        ELSE IF c.kind = "raise" THEN [t1 EXCEPT !.raised = TRUE, !.pc = "gen_except"]
        ELSE IF c.text = <<>> THEN [t1 EXCEPT !.chunks = @ + 1]
        ELSE IF t2.message_ts
        THEN [send_delayed_response(
                  t2, UpdateMessage(t2.model_name, t2.question, t2.accumulated_text), o)
                 EXCEPT !.pc = "sleep"]
        ELSE t2

\* mutant: time.sleep never returns
Pause_Forever(t) == t

\* Line 401: time.sleep(0.5) has returned
Pause(t) == [t EXCEPT !.pauses = @ + 1, !.pc = "generate"]

\* mutant: the error is reported and the iteration goes on
ReportGenerationError_Resume(t, o) ==
    [send_delayed_response(t, GenerationErrorMessage, o) EXCEPT !.pc = "generate"]

\* Lines 405-411
ReportGenerationError(t, o) ==
    [send_delayed_response(t, GenerationErrorMessage, o) EXCEPT !.pc = "done"]

\* mutant: the exception is swallowed without a report
ReportError_Silent(t, o) == [t EXCEPT !.pc = "done"]

\* Lines 413-418
ReportError(t, o) ==
    [send_delayed_response(t, ErrorMessage, o) EXCEPT !.pc = "done"]

----------------------------------------------------------------------------
(* The command endpoint: handle_slack_command *)

AskAck ==
    Jsonify([response_type |-> "in_channel",
             msg |-> "Processing your request... This may take a few seconds.",
             arg |-> <<>>], 200)

None == "None"

\* What serving a request comes to: the response, the collaborator calls
\* made, and the argument tuples of the threads started.
Outcome(response, made, started) == [resp |-> response, calls |-> made, spawn |-> started]

\* Lines 233-260: the expected signature compared with the received one
VerifySignature(r) ==
    LET raw_body == r.form
        my_signature == Hmac(slack_signing_secret, r.timestamp, raw_body)
    IN  compare_digest(my_signature, r.signature)

\* mutant: the thread is created but never started
StartThread_NotStarted(text, channel_id, response_url) == <<>>

\* Lines 278-283: threading.Thread(target=process_ask_command_async,
\* args=(text, channel_id, response_url)).start()
StartThread(text, channel_id, response_url) ==
    <<[text |-> text, channel_id |-> channel_id, response_url |-> response_url]>>

\* mutant: every command that is not /ask or /create-specs lists the models
Dispatch_DefaultList(data, tr, gn, cm, lm) ==
    LET command == FormGet(data, "command", "")
        text == Strip(FormGet(data, "text", <<>>))
        channel_id == FormGet(data, "channel_id", None)
        response_url == FormGet(data, "response_url", None)
        specs == handle_create_specs(data, tr, gn, cm)
        models == handle_list_models(lm)
    IN  IF command = "/ask"
        THEN Outcome(AskAck, <<>>,
                     <<[text |-> text, channel_id |-> channel_id,
                        response_url |-> response_url]>>)
        ELSE IF command = "/create-specs"
        THEN Outcome(specs.resp, specs.calls, <<>>)
        ELSE Outcome(models.resp, models.calls, <<>>)

\* Lines 265-298: the form fields and the dispatch on the command
Dispatch(data, tr, gn, cm, lm) ==
    LET command == FormGet(data, "command", "")
        text == Strip(FormGet(data, "text", <<>>))
        channel_id == FormGet(data, "channel_id", None)
        response_url == FormGet(data, "response_url", None)
        specs == handle_create_specs(data, tr, gn, cm)
        models == handle_list_models(lm)
    IN  IF command = "/ask"
        THEN Outcome(AskAck, <<>>, StartThread(text, channel_id, response_url))
        ELSE IF command = "/create-specs"
        THEN Outcome(specs.resp, specs.calls, <<>>)
        ELSE IF command = "/list-models"
        THEN Outcome(models.resp, models.calls, <<>>)
        ELSE Outcome(Ephemeral("Unknown command", command), <<>>, <<>>)

\* handle_slack_command: 500 when the comparison raised, 401 on a mismatch,
\* the dispatch otherwise
handle_slack_command(r, tr, gn, cm, lm) ==
    LET compared == VerifySignature(r)
    IN  IF compared.raised
        THEN Outcome(Jsonify([response_type |-> "ephemeral",
                              msg |-> "An error occurred", arg |-> <<>>], 500),
                     <<>>, <<>>)
        ELSE IF ~compared.equal
        THEN Outcome(Jsonify([error |-> "Invalid request signature"], 401), <<>>, <<>>)
        ELSE Dispatch(r.form, tr, gn, cm, lm)

----------------------------------------------------------------------------
(* Inputs *)

TextQ == <<" ", "q", " ">>
TextFlashQ ==
    <<"g", "e", "m", "i", "n", "i", "-", "1", ".", "5", "-", "f", "l", "a", "s", "h", " ", "q">>
TextTicket ==
    <<"h", ":", "/", "/", "j", "/", "b", "r", "o", "w", "s", "e", "/", "a", "b", "-", "1", " ", "p">>
TextForeign ==
    <<"h", ":", "/", "/", "o", "/", "b", "r", "o", "w", "s", "e", "/", "a", "b", "-", "1">>
TextNoKey == <<"h", ":", "/", "/", "j", "/", "x">>
TextForeignNoKey == <<"h", ":", "/", "/", "o", "/", "x">>
TextBlank == <<" ", " ">>

\* Slack issues a fresh response_url with every command invocation, so the
\* callback URLs also bound the threads of one behaviour
ResponseUrls == {"u1"}
Channels == {"C1"}
Timestamps == {"1700000000"}

\* the commands with the texts their handlers tell apart; "/foo" and a form
\* without a command field are the unrecognised ones
CommandTexts ==
    ({"/ask"} \X {<<>>, TextBlank, TextQ, TextFlashQ})
        \cup ({"/create-specs"} \X {<<>>, TextBlank, TextTicket, TextForeign, TextNoKey,
                                     TextForeignNoKey})
        \cup ({"/list-models"} \X {<<>>})
        \cup ({"/foo"} \X {TextQ})

Forms ==
    { [command |-> ct[1], text |-> ct[2], channel_id |-> c, response_url |-> u] :
          ct \in CommandTexts, c \in Channels, u \in ResponseUrls }
        \cup [text : {TextQ}, channel_id : Channels, response_url : ResponseUrls]

\* the X-Slack-Signature values a request may carry: the sender's digest, a
\* digest made with another secret, no header at all ('' by default), and a
\* header with non-ASCII characters
Signatures(timestamp, form) ==
    { Hmac(slack_signing_secret, timestamp, form),
      Hmac("forged", timestamp, form),
      RawHeader("", TRUE),
      RawHeader("non-ascii", FALSE) }

NoOutcome == [tr |-> [kind |-> "ok", summary |-> <<"s">>, description |-> <<"d">>],
              gn |-> [raised |-> FALSE, text |-> <<"o", "k">>],
              cm |-> "ok", lm |-> "ok"]

\* What the collaborators may answer.  Their answers are drawn only for a
\* request that reaches one of them.
Outcomes(r) ==
    LET probe == handle_slack_command(r, NoOutcome.tr, NoOutcome.gn, NoOutcome.cm, NoOutcome.lm)
    IN  IF probe.calls = <<>> THEN {NoOutcome}
        ELSE IF probe.calls[1].op = "list_gemini_models"
        THEN [tr : {NoOutcome.tr}, gn : {NoOutcome.gn}, cm : {"ok"}, lm : ListOutcomes]
        ELSE [tr : TrackerOutcomes, gn : GenOutcomes, cm : CommentOutcomes, lm : {"ok"}]

NoRequest == [timestamp |-> "", signature |-> RawHeader("", TRUE), form |-> [none |-> TRUE]]
NoResponse == [status |-> 0, body |-> [none |-> TRUE]]

----------------------------------------------------------------------------
(* The state machine *)

Init ==
    /\ req = NoRequest
    /\ resp = NoResponse
    /\ calls = <<>>
    /\ tasks = <<>>

\* the requests the platform may send
Requests ==
    UNION { { [timestamp |-> x[1], signature |-> sig, form |-> x[2]] :
                  sig \in Signatures(x[1], x[2]) } : x \in Timestamps \X Forms }

\* every request with every answer of the collaborators, and what
\* handle_slack_command returns for it
Served ==
    UNION { { [r |-> r, out |-> handle_slack_command(r, o.tr, o.gn, o.cm, o.lm)] :
                  o \in Outcomes(r) } : r \in Requests }

\* One request served by handle_slack_command, start to return.
HandleRequest ==
    \E s \in Served :
        /\ \A i \in 1..Len(s.out.spawn), j \in 1..Len(tasks) :
               s.out.spawn[i].response_url # tasks[j].response_url
        /\ req' = s.r
        /\ resp' = s.out.resp
        /\ calls' = s.out.calls
        /\ tasks' = tasks \o [i \in 1..Len(s.out.spawn) |->
                                NewTask(s.out.spawn[i].text, s.out.spawn[i].channel_id,
                                        s.out.spawn[i].response_url)]

AskStart(i) ==
    /\ tasks[i].pc = "start"
    /\ \E o \in InitialOutcomes : tasks' = [tasks EXCEPT ![i] = StartTask(@, o)]
    /\ UNCHANGED <<req, resp, calls>>

AskNext(i) ==
    /\ tasks[i].pc = "generate"
    /\ \E c \in ChunkOutcomes, o \in SendOutcomes :
           /\ c.kind = "chunk" => tasks[i].chunks < MaxChunks
           /\ tasks' = [tasks EXCEPT ![i] = NextChunk(@, c, o)]
    /\ UNCHANGED <<req, resp, calls>>

AskPause(i) ==
    /\ tasks[i].pc = "sleep"
    /\ tasks' = [tasks EXCEPT ![i] = Pause(@)]
    /\ UNCHANGED <<req, resp, calls>>

AskGenerationError(i) ==
    /\ tasks[i].pc = "gen_except"
    /\ \E o \in SendOutcomes : tasks' = [tasks EXCEPT ![i] = ReportGenerationError(@, o)]
    /\ UNCHANGED <<req, resp, calls>>

AskError(i) ==
    /\ tasks[i].pc = "except"
    /\ \E o \in SendOutcomes : tasks' = [tasks EXCEPT ![i] = ReportError(@, o)]
    /\ UNCHANGED <<req, resp, calls>>

Next ==
    \/ HandleRequest
    \/ \E i \in 1..Len(tasks) : AskStart(i)
    \/ \E i \in 1..Len(tasks) : AskNext(i)
    \/ \E i \in 1..Len(tasks) : AskPause(i)
    \/ \E i \in 1..Len(tasks) : AskGenerationError(i)
    \/ \E i \in 1..Len(tasks) : AskError(i)

Spec == Init /\ [][Next]_vars

----------------------------------------------------------------------------
(* The text parse of /ask on its own: authenticated /ask requests over a    *)
(* range of texts, and the first step of the thread each of them starts.    *)

\* what the text of an /ask command may begin with: the model names, a name
\* in another case, an unknown name with the prefix, and an ordinary word
AskFirstTokens ==
    { M15PRO, M15FLASH, M20FLASH,
      <<"G", "e", "m", "i", "n", "i", "-", "1", ".", "5", "-", "p", "r", "o">>,
      GEMINI_PREFIX \o <<"x">>,
      <<"q">> }
AskSeparators == { <<" ">>, <<" ", " ">>, <<"\n">> }
AskRests == { <<"q">>, <<"q", " ", "r">> }

\* no text, a first token alone, and a first token, a separator and a rest
AskTexts ==
    { <<>> } \cup AskFirstTokens
        \cup { f \o sep \o r : f \in AskFirstTokens, sep \in AskSeparators, r \in AskRests }

\* an authenticated /ask request with the given text
AskRequest(text, channel_id, response_url, timestamp) ==
    LET form == [command |-> "/ask", text |-> text, channel_id |-> channel_id,
                 response_url |-> response_url]
    IN  [timestamp |-> timestamp,
         signature |-> Hmac(slack_signing_secret, timestamp, form),
         form |-> form]

\* the threads that serving a request has started
Spawned(out) ==
    [i \in 1..Len(out.spawn) |->
        NewTask(out.spawn[i].text, out.spawn[i].channel_id, out.spawn[i].response_url)]

\* every such request and what handle_slack_command returns for it
ServedAsks ==
    { [r |-> AskRequest(x[1], x[2], x[3], x[4]),
       out |-> handle_slack_command(AskRequest(x[1], x[2], x[3], x[4]),
                                    NoOutcome.tr, NoOutcome.gn, NoOutcome.cm, NoOutcome.lm)] :
          x \in AskTexts \X Channels \X ResponseUrls \X Timestamps }

HandleAsk ==
    \E s \in ServedAsks :
        /\ \A i \in 1..Len(s.out.spawn), j \in 1..Len(tasks) :
               s.out.spawn[i].response_url # tasks[j].response_url
        /\ req' = s.r
        /\ resp' = s.out.resp
        /\ calls' = s.out.calls
        /\ tasks' = tasks \o Spawned(s.out)

NextParse ==
    \/ HandleAsk
    \/ \E i \in 1..Len(tasks) : AskStart(i)

SpecParse == Init /\ [][NextParse]_vars

----------------------------------------------------------------------------
(* The ticket reference resolver on its own: authenticated /create-specs    *)
(* requests over a range of ticket URLs of the configured Jira instance.    *)

\* path segments: empty, the browse marker, two key-like ones and a plain one
UrlSegments == { <<>>, BROWSE, <<"a", "b", "-", "1">>, <<"c", "-", "2">>, <<"x">> }

\* the URLs of the configured instance with one to three path segments
TicketUrls ==
    { jira_url \o <<"/">> \o a : a \in UrlSegments }
        \cup { jira_url \o <<"/">> \o a \o <<"/">> \o b : a \in UrlSegments, b \in UrlSegments }
        \cup { jira_url \o <<"/">> \o a \o <<"/">> \o b \o <<"/">> \o c :
                   a \in UrlSegments, b \in UrlSegments, c \in UrlSegments }

\* an authenticated /create-specs request with the given text
SpecsRequest(text, channel_id, response_url, timestamp) ==
    LET form == [command |-> "/create-specs", text |-> text, channel_id |-> channel_id,
                 response_url |-> response_url]
    IN  [timestamp |-> timestamp,
         signature |-> Hmac(slack_signing_secret, timestamp, form),
         form |-> form]

\* every such request with every answer of the tracker, and what
\* handle_slack_command returns for it
ServedTickets ==
    { [r |-> SpecsRequest(x[1], x[2], x[3], x[4]),
       out |-> handle_slack_command(SpecsRequest(x[1], x[2], x[3], x[4]),
                                    x[5], NoOutcome.gn, NoOutcome.cm, NoOutcome.lm)] :
          x \in TicketUrls \X Channels \X ResponseUrls \X Timestamps \X TrackerOutcomes }

ResolveTicket ==
    \E s \in ServedTickets :
        /\ req' = s.r
        /\ resp' = s.out.resp
        /\ calls' = s.out.calls
        /\ UNCHANGED tasks

SpecResolve == Init /\ [][ResolveTicket]_vars

----------------------------------------------------------------------------
(* Two /ask threads running at once: two authenticated /ask requests with   *)
(* their own callback URLs are served, in either order, and the scheduler   *)
(* interleaves the steps of the threads in any order.                       *)

TextFlashR ==
    <<"g", "e", "m", "i", "n", "i", "-", "1", ".", "5", "-", "f", "l", "a", "s", "h", " ", "r">>

ConcUrls == <<"u1", "u2">>
ConcTexts == <<TextQ, TextFlashR>>

\* the two requests, each with its own text and callback URL, and what
\* handle_slack_command returns for them
ServedConc ==
    { [r |-> AskRequest(ConcTexts[x[1]], x[2], ConcUrls[x[1]], x[3]),
       out |-> handle_slack_command(AskRequest(ConcTexts[x[1]], x[2], ConcUrls[x[1]], x[3]),
                                    NoOutcome.tr, NoOutcome.gn, NoOutcome.cm, NoOutcome.lm)] :
          x \in {1, 2} \X Channels \X Timestamps }

HandleConc ==
    \E s \in ServedConc :
        /\ \A i \in 1..Len(s.out.spawn), j \in 1..Len(tasks) :
               s.out.spawn[i].response_url # tasks[j].response_url
        /\ req' = s.r
        /\ resp' = s.out.resp
        /\ calls' = s.out.calls
        /\ tasks' = tasks \o Spawned(s.out)

\* mutant: the accumulated text is one buffer of the module, shared by the
\* threads
ConcNext_SharedText(i) ==
    /\ tasks[i].pc = "generate"
    /\ \E c \in ChunkOutcomes, o \in SendOutcomes :
           /\ c.kind = "chunk" => tasks[i].chunks < MaxChunksEach
           /\ LET shared == [tasks[i] EXCEPT
                                !.accumulated_text =
                                    Concat([j \in 1..Len(tasks) |-> tasks[j].accumulated_text])]
                  t == NextChunk(shared, c, o)
              IN  tasks' = [j \in 1..Len(tasks) |->
                               IF j = i THEN t
                               ELSE [tasks[j] EXCEPT !.accumulated_text = t.accumulated_text]]
    /\ UNCHANGED <<req, resp, calls>>

\* AskNext for one of the two threads
ConcNext(i) ==
    /\ tasks[i].pc = "generate"
    /\ \E c \in ChunkOutcomes, o \in SendOutcomes :
           /\ c.kind = "chunk" => tasks[i].chunks < MaxChunksEach
           /\ tasks' = [tasks EXCEPT ![i] = NextChunk(@, c, o)]
    /\ UNCHANGED <<req, resp, calls>>

NextConc ==
    \/ HandleConc
    \/ \E i \in 1..Len(tasks) : AskStart(i)
    \/ \E i \in 1..Len(tasks) : ConcNext(i)
    \/ \E i \in 1..Len(tasks) : AskPause(i)
    \/ \E i \in 1..Len(tasks) : AskGenerationError(i)
    \/ \E i \in 1..Len(tasks) : AskError(i)

SpecConc == Init /\ [][NextConc]_vars

----------------------------------------------------------------------------
(* An /ask thread from its start to its end.  The thread is scheduled       *)
(* until it returns; each post, each request for the next chunk of the      *)
(* finite stream and each sleep returns.                                    *)

LiveTasks == {1}

NextLive ==
    \/ HandleAsk
    \/ \E i \in 1..Len(tasks) : AskStart(i)
    \/ \E i \in 1..Len(tasks) : AskNext(i)
    \/ \E i \in 1..Len(tasks) : AskPause(i)
    \/ \E i \in 1..Len(tasks) : AskGenerationError(i)
    \/ \E i \in 1..Len(tasks) : AskError(i)

\* a started thread is run until it returns
Scheduled ==
    \A i \in LiveTasks :
        /\ WF_vars(i \in DOMAIN tasks /\ AskStart(i))
        /\ WF_vars(i \in DOMAIN tasks /\ AskNext(i))
        /\ WF_vars(i \in DOMAIN tasks /\ AskPause(i))
        /\ WF_vars(i \in DOMAIN tasks /\ AskGenerationError(i))
        /\ WF_vars(i \in DOMAIN tasks /\ AskError(i))

SpecLive == Init /\ [][NextLive]_vars /\ Scheduled

----------------------------------------------------------------------------
(* Vocabulary of the properties *)

\* the received signature is the one computed from (timestamp, raw body,
\* signing secret)
Authentic(r) == r.signature = Hmac(slack_signing_secret, r.timestamp, r.form)

Served1 == req # NoRequest
CommandOf(r) == FormGet(r.form, "command", "")
TextOf(r) == Strip(FormGet(r.form, "text", <<>>))

TaskIds == 1..Len(tasks)

\* f1, f1+f2, ..., f1+...+fn
PrefixSums(fs) == [k \in 1..Len(fs) |-> Concat(SubSeq(fs, 1, k))]

IsUpdate(p) == p.message.kind = "response"
IsErrorReport(p) == p.message.kind \in {"Error generating response", "An error occurred"}

\* the accumulated-text values a task has sent, in sending order
UpdateTexts(t) ==
    LET ups == SelectSeq(t.sent, IsUpdate)
    IN  [k \in 1..Len(ups) |-> ups[k].message.text]

----------------------------------------------------------------------------
(* C1 *)

\* C1: a request whose received signature differs from the expected one is
\* answered with status 401 and no collaborator is called for it.
C1_MismatchAnswered401 ==
    (Served1 /\ ~Authentic(req)) => (resp.status = 401 /\ calls = <<>>)

----------------------------------------------------------------------------
(* C2 *)

\* the threads started with the inputs of the request last served
ThreadsOf(r) ==
    { i \in TaskIds :
        /\ tasks[i].text = TextOf(r)
        /\ tasks[i].channel_id = r.form.channel_id
        /\ tasks[i].response_url = r.form.response_url }

C2_AckAndOneThread ==
    (Served1 /\ Authentic(req) /\ CommandOf(req) = "/ask")
        => (resp = AskAck /\ calls = <<>> /\ Cardinality(ThreadsOf(req)) = 1)

C2_ThreadStartedNotAwaited ==
    Len(tasks') # Len(tasks)
        => /\ Authentic(req') /\ CommandOf(req') = "/ask"
           /\ resp' = AskAck
           /\ tasks' = Append(tasks, NewTask(TextOf(req'), req'.form.channel_id,
                                             req'.form.response_url))

\* C2: an authenticated /ask request starts exactly one thread with (text,
\* channel id, callback URL) and is answered with the fixed acknowledgment
\* while that thread has not yet made a step; the answer stays the same
\* whatever the thread does afterwards.
C2_AskSpawnsOneAndAcks == []C2_AckAndOneThread /\ [][C2_ThreadStartedNotAwaited]_vars

\* the acknowledgment stands while the thread has ended on a generation error
C2_Witness ==
    /\ Served1 /\ Authentic(req) /\ CommandOf(req) = "/ask" /\ resp = AskAck
    /\ \E i \in ThreadsOf(req) : tasks[i].pc = "done" /\ tasks[i].raised

----------------------------------------------------------------------------
(* C3 *)

\* C3: while no error was raised, the accumulated texts a task has sent are
\* exactly the prefix sums of the fragments delivered to it, in order.
C3_UpdatesArePrefixSums ==
    \A i \in TaskIds :
        ~tasks[i].raised => UpdateTexts(tasks[i]) = PrefixSums(tasks[i].fragments)

----------------------------------------------------------------------------
(* C4 *)

\* C4: a task with a question that has consumed its whole stream, of at
\* least one fragment, has sent an update with the full answer or an error
\* message.
C4_FinalAnswerOrError ==
    \A i \in TaskIds :
        (tasks[i].text # <<>> /\ tasks[i].pc = "done" /\ tasks[i].fragments # <<>>
            /\ tasks[i].requested /\ ~tasks[i].raised)
        => \E k \in 1..Len(tasks[i].sent) :
               \/ /\ IsUpdate(tasks[i].sent[k])
                  /\ tasks[i].sent[k].message.text = Concat(tasks[i].fragments)
               \/ IsErrorReport(tasks[i].sent[k])

----------------------------------------------------------------------------
(* C5 *)

Last(s) == s[Len(s)]

C5_AfterErrorState ==
    \A i \in TaskIds :
        tasks[i].raised
        => /\ tasks[i].pc \in {"gen_except", "done"}
           /\ tasks[i].pc = "done"
              => /\ Last(tasks[i].sent).message.kind = "Error generating response"
                 /\ Last(tasks[i].sent).message.response_type = "ephemeral"
                 /\ Last(tasks[i].sent).message.text = <<>>

C5_AfterErrorStep ==
    \A i \in TaskIds :
        tasks[i].raised
        => /\ tasks'[i].fragments = tasks[i].fragments
           /\ tasks'[i].chunks = tasks[i].chunks
           /\ tasks'[i].accumulated_text = tasks[i].accumulated_text
           /\ \/ tasks'[i].sent = tasks[i].sent /\ tasks'[i].pc = tasks[i].pc
              \/ /\ tasks[i].pc = "gen_except" /\ tasks'[i].pc = "done"
                 /\ tasks'[i].sent =
                        Append(tasks[i].sent, [url |-> tasks[i].response_url,
                                               message |-> GenerationErrorMessage])

\* C5: once the provider has raised, the task consumes no further fragment,
\* sends exactly one more message, an ephemeral error message without the
\* accumulated text, and ends.
C5_ErrorAbortsStream == []C5_AfterErrorState /\ [][C5_AfterErrorStep]_vars

\* an error after one fragment whose update was sent
C5_Witness ==
    \E i \in TaskIds :
        /\ tasks[i].raised /\ tasks[i].pc = "done"
        /\ Len(tasks[i].fragments) >= 1 /\ tasks[i].message_ts

----------------------------------------------------------------------------
(* C6 *)

\* C6: the per-fragment updates and the error message of a generation error
\* that a task posts after its placeholder carry replace_original.
C6_LaterSendsReplace ==
    \A i \in TaskIds :
        \A k \in 2..Len(tasks[i].sent) :
            (/\ tasks[i].sent[1].message.kind = "thinking"
             /\ tasks[i].sent[k].message.kind \in {"response", "Error generating response"})
                => tasks[i].sent[k].message.replace_original

----------------------------------------------------------------------------
(* C7 *)

Placeholders(t) == { k \in 1..Len(t.sent) : t.sent[k].message.kind = "thinking" }

\* C7: a task with a question posts the placeholder first and once, showing
\* the model and the question, and the post has returned before generation
\* is requested or a fragment consumed.
C7_PlaceholderFirst ==
    \A i \in TaskIds :
        /\ (tasks[i].text # <<>> /\ tasks[i].pc # "start")
           => /\ Placeholders(tasks[i]) = {1}
              /\ tasks[i].sent[1].message.model = tasks[i].model_name
              /\ tasks[i].sent[1].message.question = tasks[i].question
              /\ tasks[i].sent[1].message.model \in valid_models
              /\ tasks[i].sent[1].url = tasks[i].response_url
        /\ (tasks[i].requested \/ tasks[i].fragments # <<>> \/ tasks[i].chunks > 0)
           => /\ Placeholders(tasks[i]) = {1}
              /\ tasks[i].initial # "none"
        /\ tasks[i].text = <<>> => Placeholders(tasks[i]) = {}

\* generation was requested and a fragment consumed after the placeholder
C7_Witness ==
    \E i \in TaskIds :
        /\ tasks[i].requested /\ Len(tasks[i].fragments) >= 1
        /\ Placeholders(tasks[i]) = {1}

----------------------------------------------------------------------------
(* C8 *)

SpecResults ==
    { "usage_create_specs", "Invalid Jira ticket URL",
      "Error: The provided URL must be from your configured Jira instance",
      "An unexpected error occurred", "Error retrieving Jira ticket",
      "Error generating specs", "Successfully added specifications to Jira ticket",
      "Error adding comment to Jira" }

\* the outcomes of the router a response is an instance of
OutcomesOf(r) ==
    (IF r = AskAck THEN {"ask-ack"} ELSE {})
        \cup (IF r.body.msg \in SpecResults THEN {"spec-result"} ELSE {})
        \cup (IF r.body.msg = "Available Gemini Models" THEN {"model-list"} ELSE {})
        \cup (IF r.body.msg = "Unknown command" THEN {"unknown-response"} ELSE {})

Routed(command) ==
    IF command = "/ask" THEN "ask-ack"
    ELSE IF command = "/create-specs" THEN "spec-result"
    ELSE IF command = "/list-models" THEN "model-list"
    ELSE "unknown-response"

C8_OneOutcome ==
    (Served1 /\ Authentic(req))
        => /\ resp.status = 200
           /\ OutcomesOf(resp) = {Routed(CommandOf(req))}
           /\ Routed(CommandOf(req)) = "unknown-response"
              => /\ resp = Ephemeral("Unknown command", CommandOf(req))
                 /\ calls = <<>>

C8_UnknownStartsNothing ==
    (Authentic(req') /\ Routed(CommandOf(req')) = "unknown-response" /\ req' # req)
        => tasks' = tasks

\* C8: an authenticated request gets exactly one of the four outcomes, the
\* one its command names; an unrecognised command gets a status-200
\* ephemeral message naming it, calls no collaborator and starts no thread.
C8_RouterTotal == []C8_OneOutcome /\ [][C8_UnknownStartsNothing]_vars

\* a form without a command field, answered as the unknown command ""
C8_Witness ==
    /\ Served1 /\ Authentic(req) /\ "command" \notin DOMAIN req.form
    /\ resp = Ephemeral("Unknown command", "")

----------------------------------------------------------------------------
(* C9 *)

SpecOrder == <<"get_jira_ticket_details", "generate_specs", "add_jira_comment">>

TicketUrlOf(r) == SplitFirst(TextOf(r))[1]

----------------------------------------------------------------------------
(* C10 *)

\* C10: a failed generation call is answered with the generation error and
\* no comment is written; a successful one has its text written as the
\* comment.
C10_GenerationOutcomeTold ==
    (Served1 /\ Authentic(req) /\ CommandOf(req) = "/create-specs" /\ Len(calls) >= 2)
        => /\ calls[2].failed
              => (Len(calls) = 2 /\ resp.body.msg = "Error generating specs")
           /\ ~calls[2].failed
              => (Len(calls) = 3 /\ calls[3].comment = calls[2].returned)

----------------------------------------------------------------------------
(* C11 *)

\* C11: an authenticated /create-specs or /list-models request is answered
\* with status 200 whatever the collaborators do; for /create-specs the
\* response is in_channel exactly when the comment write succeeded, and
\* ephemeral whenever a collaborator call failed.
C11_SyncHandlersAnswer200 ==
    (Served1 /\ Authentic(req) /\ CommandOf(req) \in {"/create-specs", "/list-models"})
        => /\ resp.status = 200
           /\ CommandOf(req) = "/create-specs"
              => /\ resp.body.response_type = "in_channel"
                        <=> (Len(calls) = 3 /\ ~calls[3].failed)
                 /\ (\E k \in 1..Len(calls) : calls[k].failed)
                        => resp.body.response_type = "ephemeral"

----------------------------------------------------------------------------
(* C12 *)

\* the posts a task has made are pairwise different
C12_NoRepost ==
    \A i \in TaskIds :
        \A j, k \in 1..Len(tasks[i].sent) : j # k => tasks[i].sent[j] # tasks[i].sent[k]

C12_SendStep ==
    \A i \in TaskIds :
        /\ Len(tasks'[i].sent) <= Len(tasks[i].sent) + 1
        /\ SubSeq(tasks'[i].sent, 1, Len(tasks[i].sent)) = tasks[i].sent
        /\ Len(tasks'[i].sent) = Len(tasks[i].sent) + 1
           => /\ tasks'[i].response \in SendOutcomes
              /\ tasks'[i].pc \in {"generate", "sleep", "done", "except"}
              /\ IsUpdate(Last(tasks'[i].sent))
                 => /\ tasks'[i].pc = "sleep"
                    /\ ~tasks'[i].raised
        /\ tasks[i].pc = "sleep"
           => \/ tasks'[i] = tasks[i]
              \/ /\ tasks'[i].pc = "generate"
                 /\ tasks'[i].sent = tasks[i].sent
                 /\ tasks'[i].response = tasks[i].response

\* C12: send_delayed_response makes one post per call and hands a failure
\* back as its return value: every step of a task adds at most one post, no
\* post is made twice, and after an update the task pauses and returns to
\* the iteration whether the update was delivered or not.
C12_SendOnceNeverRaises == []C12_NoRepost /\ [][C12_SendStep]_vars

\* an update failed, the pause is over and the task is back in the iteration
C12_Witness ==
    \E i \in TaskIds :
        /\ tasks[i].response = "failed" /\ IsUpdate(Last(tasks[i].sent))
        /\ tasks[i].pc = "generate" /\ tasks[i].pauses = Len(UpdateTexts(tasks[i]))
        /\ tasks[i].chunks < MaxChunks

----------------------------------------------------------------------------
(* C13 *)

\* the first whitespace-delimited token of a text, and the text after it
FirstToken(text) ==
    LET w == FirstOf(text, Whitespace)
    IN  IF w = 0 THEN text ELSE SubSeq(text, 1, w - 1)

Remaining(text) ==
    LET w == FirstOf(text, Whitespace)
    IN  IF w = 0 THEN <<>> ELSE Strip(SubSeq(text, w + 1, Len(text)))

\* C13: a task past its parse has the first token of the text as its model
\* and the rest of the text as its question when that token is a recognised
\* model name, and the default model with the whole text as its question
\* otherwise; its model is one of the recognised names in either case.
C13_ParseByFirstToken ==
    \A i \in TaskIds :
        (tasks[i].pc # "start" /\ tasks[i].text # <<>>)
        => LET token == FirstToken(tasks[i].text)
           IN  /\ tasks[i].model_name \in valid_models
               /\ token \in valid_models
                  => /\ tasks[i].model_name = token
                     /\ Strip(tasks[i].question) = Remaining(tasks[i].text)
               /\ token \notin valid_models
                  => /\ tasks[i].model_name = M15PRO
                     /\ tasks[i].question = tasks[i].text

----------------------------------------------------------------------------
(* C14 *)

\* the path segments of the ticket URL of a request
SegmentsOf(r) == Split(UrlPath(TicketUrlOf(r)), "/")

\* the positions of the segments that follow a browse marker
AfterBrowse(segs) == { k \in 2..Len(segs) : segs[k - 1] = BROWSE }

\* the positions of the segments with both a dash and a digit
KeyLike(segs) ==
    { k \in 1..Len(segs) : (\E j \in 1..Len(segs[k]) : segs[k][j] = "-")
                             /\ (\E j \in 1..Len(segs[k]) : segs[k][j] \in Digits) }

Min(S) == CHOOSE k \in S : \A j \in S : k <= j

\* C14: for a ticket URL of the configured instance, the key handed to the
\* tracker is the uppercased segment after the browse marker when there is
\* one, else the uppercased first segment with a dash and a digit; without
\* either the URL is rejected.  The key is never empty.
C14_KeyFromSegments ==
    (Served1 /\ Authentic(req) /\ CommandOf(req) = "/create-specs" /\ TextOf(req) # <<>>
        /\ StartsWith(TicketUrlOf(req), jira_url))
    => LET segs == SegmentsOf(req)
       IN  /\ AfterBrowse(segs) # {}
              => /\ calls # <<>>
                 /\ calls[1].ticket_key = Upper(segs[Min(AfterBrowse(segs))])
           /\ (AfterBrowse(segs) = {} /\ KeyLike(segs) # {})
              => /\ calls # <<>>
                 /\ calls[1].ticket_key = Upper(segs[Min(KeyLike(segs))])
           /\ (AfterBrowse(segs) = {} /\ KeyLike(segs) = {})
              => /\ calls = <<>>
                 /\ resp = Ephemeral("Invalid Jira ticket URL", TicketUrlOf(req))
           /\ calls # <<>> => calls[1].ticket_key # <<>>

----------------------------------------------------------------------------
(* C15 *)

\* the posts of task t carry only what belongs to t
OwnPosts(t) ==
    \A k \in 1..Len(t.sent) :
        /\ t.sent[k].url = t.response_url
        /\ t.sent[k].message.kind \in {"thinking", "response"}
           => /\ t.sent[k].message.model = ParseAsk(t.text).model_name
              /\ t.sent[k].message.question = ParseAsk(t.text).question
        /\ IsUpdate(t.sent[k])
           => \E n \in 1..Len(t.fragments) :
                  t.sent[k].message.text = Concat(SubSeq(t.fragments, 1, n))

\* C15: with two /ask tasks running at once, each task posts to the callback
\* URL it was started with, shows its own model and question, and its
\* accumulated text is the concatenation of the fragments streamed to it
\* and of nothing else.
C15_TasksShareNothing ==
    \A i \in TaskIds :
        /\ OwnPosts(tasks[i])
        /\ tasks[i].accumulated_text = Concat(tasks[i].fragments)
        /\ \A j \in TaskIds : j # i => tasks[j].response_url # tasks[i].response_url

\* both tasks are in the pause after an update, each with its own fragment
C15_Witness ==
    /\ Len(tasks) = 2
    /\ tasks[1].pc = "sleep" /\ tasks[2].pc = "sleep"
    /\ tasks[1].fragments # tasks[2].fragments
    /\ tasks[1].sent[1].message.model # tasks[2].sent[1].message.model

----------------------------------------------------------------------------
(* C16 *)

\* an exception was raised inside the task: by the provider, or by the
\* decoding of the placeholder's response
Excepted(t) == t.raised \/ t.initial = "ok_not_json"

ErrorReports(t) == { k \in 1..Len(t.sent) : IsErrorReport(t.sent[k]) }

\* C16: every exception raised inside a task is caught: the task is in one
\* of its two except blocks or has ended, it has made no error report while
\* in the block and exactly one, ephemeral and to its callback URL, as its
\* last post once ended; a task without an exception reports no error.
C16_ExceptionsCaughtAndReported ==
    \A i \in TaskIds :
        /\ Excepted(tasks[i]) => tasks[i].pc \in {"except", "gen_except", "done"}
        /\ tasks[i].pc \in {"except", "gen_except"}
           => (Excepted(tasks[i]) /\ ErrorReports(tasks[i]) = {})
        /\ (Excepted(tasks[i]) /\ tasks[i].pc = "done")
           => /\ ErrorReports(tasks[i]) = {Len(tasks[i].sent)}
              /\ Last(tasks[i].sent).message.response_type = "ephemeral"
              /\ Last(tasks[i].sent).url = tasks[i].response_url
              /\ tasks[i].response \in SendOutcomes
        /\ ~Excepted(tasks[i]) => ErrorReports(tasks[i]) = {}

\* the placeholder's response could not be decoded; the report was attempted
\* and not delivered, and the task has ended
C16_Witness ==
    \E i \in TaskIds :
        /\ tasks[i].initial = "ok_not_json" /\ tasks[i].pc = "done"
        /\ Last(tasks[i].sent).message = ErrorMessage
        /\ tasks[i].response = "failed"

----------------------------------------------------------------------------
(* C17 *)

\* the pauses a task has finished are one per update sent, less the one it
\* is in; without a handle there is no update and no pause
C17_OnePausePerUpdate ==
    \A i \in TaskIds :
        /\ tasks[i].pauses
               = Len(UpdateTexts(tasks[i])) - (IF tasks[i].pc = "sleep" THEN 1 ELSE 0)
        /\ tasks[i].pc = "sleep"
           => (tasks[i].message_ts /\ IsUpdate(Last(tasks[i].sent)))
        /\ ~tasks[i].message_ts => (tasks[i].pauses = 0 /\ tasks[i].pc # "sleep")

\* while a task pauses it consumes nothing and sends nothing, and an update
\* is sent only by a task that is not pausing
C17_PauseStep ==
    \A i \in TaskIds :
        /\ tasks[i].pc = "sleep"
           => /\ tasks'[i].sent = tasks[i].sent
              /\ tasks'[i].fragments = tasks[i].fragments
              /\ tasks'[i].chunks = tasks[i].chunks
              /\ tasks'[i].accumulated_text = tasks[i].accumulated_text
              /\ tasks'[i].pauses \in {tasks[i].pauses, tasks[i].pauses + 1}
              /\ tasks'[i].pauses = tasks[i].pauses + 1 <=> tasks'[i].pc = "generate"
              /\ tasks'[i].pc \in {"sleep", "generate"}
        /\ Len(UpdateTexts(tasks'[i])) > Len(UpdateTexts(tasks[i]))
           => /\ tasks[i].pc = "generate" /\ tasks'[i].pc = "sleep"
              /\ Len(UpdateTexts(tasks'[i])) = Len(UpdateTexts(tasks[i])) + 1
              /\ tasks[i].pauses = Len(UpdateTexts(tasks[i]))

\* C17: a task pauses only when it has a message handle, once after each
\* update it sends, and neither consumes a fragment nor sends until the
\* pause is over; between two consecutive updates there is a pause.
C17_PauseAfterEachUpdate == []C17_OnePausePerUpdate /\ [][C17_PauseStep]_vars

\* two updates sent, the first pause over and the second under way
C17_Witness ==
    \E i \in TaskIds :
        /\ Len(UpdateTexts(tasks[i])) = 2 /\ tasks[i].pauses = 1 /\ tasks[i].pc = "sleep"

----------------------------------------------------------------------------
(* C18 *)

C18_EveryTaskEnds ==
    \A i \in LiveTasks :
        (i \in DOMAIN tasks) ~> (i \in DOMAIN tasks /\ tasks[i].pc = "done")

C18_EndedStaysEnded ==
    \A i \in TaskIds : tasks[i].pc = "done" => tasks'[i] = tasks[i]

\* C18: every started task reaches its end state, and an ended task posts
\* nothing and changes nothing afterwards.
C18_TaskTerminates == C18_EveryTaskEnds /\ [][C18_EndedStaysEnded]_vars

\* a task has ended after a full stream with both updates sent
C18_Witness ==
    \E i \in TaskIds :
        /\ tasks[i].pc = "done" /\ ~tasks[i].raised
        /\ Len(UpdateTexts(tasks[i])) = 2 /\ tasks[i].pauses = 2

----------------------------------------------------------------------------
(* C19 *)

\* C19: /ask with an empty text is acknowledged as usual, and its task posts
\* the ephemeral usage message and nothing else, without placeholder and
\* without requesting generation; /create-specs with an empty text is
\* answered with status 200 and the ephemeral usage message, and calls no
\* collaborator.
C19_EmptyTextUsage ==
    /\ (Served1 /\ Authentic(req) /\ CommandOf(req) = "/ask" /\ TextOf(req) = <<>>)
       => (resp = AskAck /\ ThreadsOf(req) # {})
    /\ \A i \in TaskIds :
           tasks[i].text = <<>>
           => /\ tasks[i].pc \in {"start", "done"}
              /\ tasks[i].pc = "start" => tasks[i].sent = <<>>
              /\ tasks[i].pc = "done"
                 => /\ tasks[i].sent = <<[url |-> tasks[i].response_url,
                                         message |-> UsageMessage]>>
                    /\ tasks[i].sent[1].message.response_type = "ephemeral"
              /\ ~tasks[i].requested /\ tasks[i].chunks = 0
              /\ Placeholders(tasks[i]) = {}
    /\ (Served1 /\ Authentic(req) /\ CommandOf(req) = "/create-specs" /\ TextOf(req) = <<>>)
       => /\ resp = Ephemeral("usage_create_specs", <<>>)
          /\ resp.status = 200 /\ resp.body.response_type = "ephemeral"
          /\ calls = <<>>

\* /create-specs with a blank text was answered with the usage message while
\* the task of an earlier /ask without text has posted its usage message
C19_Witness ==
    /\ Served1 /\ Authentic(req) /\ CommandOf(req) = "/create-specs"
    /\ req.form.text = TextBlank /\ resp = Ephemeral("usage_create_specs", <<>>)
    /\ \E i \in TaskIds :
           /\ tasks[i].text = <<>> /\ tasks[i].pc = "done"
           /\ Last(tasks[i].sent).message = UsageMessage

----------------------------------------------------------------------------
(* C20 *)

\* the placeholder post failed, or its decoded response has no ts
NoHandle(t) == t.initial \in {"failed", "ok_no_ts"}

C20_NoHandleState ==
    \A i \in TaskIds :
        NoHandle(tasks[i])
        => /\ ~tasks[i].message_ts
           /\ tasks[i].pc \in {"generate", "gen_except", "done"}
           /\ tasks[i].pc # "generate" => tasks[i].requested
           /\ tasks[i].accumulated_text = Concat(tasks[i].fragments)
           /\ UpdateTexts(tasks[i]) = <<>>
           /\ tasks[i].pauses = 0
           /\ Placeholders(tasks[i]) = {1}
           /\ Len(tasks[i].sent) <= 2
           /\ Len(tasks[i].sent) = 2
              => /\ tasks[i].sent[2].message = GenerationErrorMessage
                 /\ tasks[i].raised /\ tasks[i].pc = "done"
           /\ (tasks[i].pc = "done" /\ ~tasks[i].raised) => Len(tasks[i].sent) = 1

C20_NoHandleStep ==
    \A i \in TaskIds :
        (NoHandle(tasks[i]) /\ tasks[i].pc = "generate" /\ tasks'[i] # tasks[i])
        => /\ tasks'[i].requested
           /\ \/ tasks'[i].pc = "generate" /\ tasks'[i].sent = tasks[i].sent
              \/ /\ tasks'[i].pc = "done" /\ tasks'[i].sent = tasks[i].sent
                 /\ tasks'[i].fragments = tasks[i].fragments
              \/ /\ tasks'[i].pc = "gen_except" /\ tasks'[i].sent = tasks[i].sent
                 /\ tasks'[i].fragments = tasks[i].fragments

\* C20: a task whose placeholder post gave no message handle goes on to
\* request generation and appends every fragment of the stream to its
\* accumulated text up to the stream's end, sends no update and never
\* pauses; the only post it can make after the placeholder is the error
\* message of a generation error.
C20_NoHandleNoUpdates == []C20_NoHandleState /\ [][C20_NoHandleStep]_vars

\* the placeholder post failed, two fragments were consumed to the end of
\* the stream, and nothing but the placeholder was posted
C20_Witness ==
    \E i \in TaskIds :
        /\ tasks[i].initial = "failed" /\ tasks[i].pc = "done" /\ ~tasks[i].raised
        /\ Len(tasks[i].fragments) = 2 /\ Len(tasks[i].sent) = 1

----------------------------------------------------------------------------
(* C21 *)

\* the placeholder post was answered with an ok status and a body that
\* response.json() cannot decode
Undecodable(t) == t.initial = "ok_not_json"

C21_UndecodableState ==
    \A i \in TaskIds :
        /\ Undecodable(tasks[i])
           => /\ tasks[i].pc \in {"except", "done"}
              /\ ~tasks[i].requested /\ tasks[i].chunks = 0
              /\ tasks[i].fragments = <<>> /\ tasks[i].accumulated_text = <<>>
              /\ ~tasks[i].message_ts /\ ~tasks[i].raised /\ tasks[i].pauses = 0
              /\ tasks[i].sent[1] =
                     [url |-> tasks[i].response_url,
                      message |-> InitialMessage(tasks[i].model_name, tasks[i].question)]
              /\ tasks[i].pc = "except" => Len(tasks[i].sent) = 1
              /\ tasks[i].pc = "done"
                 => /\ Len(tasks[i].sent) = 2
                    /\ tasks[i].sent[2] = [url |-> tasks[i].response_url,
                                           message |-> ErrorMessage]
                    /\ tasks[i].sent[2].message.response_type = "ephemeral"
        /\ tasks[i].pc = "except" => Undecodable(tasks[i])
        /\ tasks[i].requested
           => /\ tasks[i].initial \in {"failed", "ok_ts", "ok_no_ts"}
              /\ tasks[i].text # <<>>
              /\ Placeholders(tasks[i]) = {1}

C21_UndecodableStep ==
    \A i \in TaskIds :
        /\ (tasks[i].pc = "start" /\ tasks'[i] # tasks[i] /\ Undecodable(tasks'[i]))
           => (tasks'[i].pc = "except" /\ tasks'[i].response = "ok")
        /\ (Undecodable(tasks[i]) /\ tasks'[i] # tasks[i])
           => /\ tasks[i].pc = "except" /\ tasks'[i].pc = "done"
              /\ tasks'[i].sent = Append(tasks[i].sent,
                                          [url |-> tasks[i].response_url,
                                           message |-> ErrorMessage])
              /\ ~tasks'[i].requested

\* C21: a task whose placeholder post succeeded with a body that cannot be
\* decoded posts one ephemeral 'An error occurred' message to its callback
\* URL and ends, without requesting generation or consuming a fragment;
\* generation is requested only by a task that posted the placeholder and
\* whose post failed or was answered with a decodable body.
C21_UndecodableEndsUnrequested == []C21_UndecodableState /\ [][C21_UndecodableStep]_vars

\* the placeholder's body could not be decoded, and the error message was
\* posted and delivered as the task's second and last post
C21_Witness ==
    \E i \in TaskIds :
        /\ Undecodable(tasks[i]) /\ tasks[i].pc = "done"
        /\ Len(tasks[i].sent) = 2 /\ tasks[i].sent[2].message = ErrorMessage
        /\ tasks[i].response = "ok" /\ ~tasks[i].requested

====
